---- MODULE Spec2Model ----
(***************************************************************************)
(* Model of the file-to-SQL query builder: src/runqueriesoncsvexcel.py     *)
(* (CSV/XLSX version) and src/app.py (the earlier CSV-only version).       *)
(*                                                                         *)
(* A Python str is a sequence of one-character strings, so that the        *)
(* character-level code (isalnum, replace, startswith, lower, "in") is     *)
(* computed as the code computes it.  None is the empty tuple and a        *)
(* present value v is <<v>>.                                               *)
(*                                                                         *)
(* One step of the model is one run of main() (Streamlit reruns the script *)
(* top to bottom on every widget event).  A run is the composition of the  *)
(* script's sections over a "world" record:                                *)
(*   ss     st.session_state                                               *)
(*   fs     the persistent database file (None while it does not exist)    *)
(*   conns  the number of open sqlite3 connections                         *)
(*   log    what the run called and showed, in order                       *)
(*   remote the remote calls: the connections open then, and the answer    *)
(*   execs  the statements executed and what came back                     *)
(***************************************************************************)
EXTENDS Integers, Sequences, FiniteSets, TLC

----------------------------------------------------------------------------
(* Python values *)

None == <<>>
Some(v) == <<v>>
IsNone(o) == o = <<>>
Get(o) == o[1]

UpperCase == <<"A","B","C","D","E","F","G","H","I","J","K","L","M",
               "N","O","P","Q","R","S","T","U","V","W","X","Y","Z">>
LowerCase == <<"a","b","c","d","e","f","g","h","i","j","k","l","m",
               "n","o","p","q","r","s","t","u","v","w","x","y","z">>
Digits == <<"0","1","2","3","4","5","6","7","8","9">>

Range(s) == {s[i] : i \in DOMAIN s}

\* c.lower(), c.upper() of one character
lowerChar(c) ==
    IF \E i \in DOMAIN UpperCase : UpperCase[i] = c
    THEN LowerCase[CHOOSE i \in DOMAIN UpperCase : UpperCase[i] = c]
    ELSE c
upperChar(c) ==
    IF \E i \in DOMAIN LowerCase : LowerCase[i] = c
    THEN UpperCase[CHOOSE i \in DOMAIN LowerCase : LowerCase[i] = c]
    ELSE c

\* s.lower(), s.upper()
lower(s) == [i \in DOMAIN s |-> lowerChar(s[i])]
upper(s) == [i \in DOMAIN s |-> upperChar(s[i])]

\* c.isalnum(), c.isspace()
isalnum(c) == c \in Range(UpperCase) \cup Range(LowerCase) \cup Range(Digits)
isspace(c) == c \in {" ", "\n", "\t", "\r"}

\* a local name: F applied to the value of v, which is computed once
With(v, F(_)) == CHOOSE y \in {F(x) : x \in {v}} : TRUE

\* s[a-1:b]: the characters a..b of s that exist
slice(s, a, b) ==
    LET lo == IF a < 1 THEN 1 ELSE a
        hi == IF b > Len(s) THEN Len(s) ELSE b
    IN IF lo > hi THEN <<>> ELSE SubSeq(s, lo, hi)

\* s.startswith(p), s.endswith(p), p in s
startswith(s, p) == Len(p) <= Len(s) /\ SubSeq(s, 1, Len(p)) = p
endswith(s, p) == Len(p) <= Len(s) /\ SubSeq(s, Len(s) - Len(p) + 1, Len(s)) = p
contains(s, p) ==
    \E i \in 1..(Len(s) - Len(p) + 1) : SubSeq(s, i, i + Len(p) - 1) = p

\* s.strip()
strip(s) ==
    IF \A i \in DOMAIN s : isspace(s[i]) THEN <<>>
    ELSE LET a == CHOOSE i \in DOMAIN s :
                    ~isspace(s[i]) /\ \A j \in 1..(i-1) : isspace(s[j])
             b == CHOOSE i \in DOMAIN s :
                    ~isspace(s[i]) /\ \A j \in (i+1)..Len(s) : isspace(s[j])
         IN SubSeq(s, a, b)

\* s.replace(c, "", 1): only the first c is removed
RECURSIVE removeFirstChar(_, _)
removeFirstChar(s, c) ==
    IF s = <<>> THEN <<>>
    ELSE IF Head(s) = c THEN Tail(s)
    ELSE <<Head(s)>> \o removeFirstChar(Tail(s), c)

\* s.replace(c, '') for a one-character c
RECURSIVE removeChar(_, _)
removeChar(s, c) ==
    IF s = <<>> THEN <<>>
    ELSE IF Head(s) = c THEN removeChar(Tail(s), c)
    ELSE <<Head(s)>> \o removeChar(Tail(s), c)

\* s.split(): the whitespace-separated words of s
RECURSIVE split(_)
split(s) ==
    With(strip(s), LAMBDA t :
    IF t = <<>> THEN <<>>
    ELSE With(IF \E i \in DOMAIN t : isspace(t[i])
              THEN (CHOOSE i \in DOMAIN t :
                        isspace(t[i]) /\ \A j \in 1..(i-1) : ~isspace(t[j])) - 1
              ELSE Len(t), LAMBDA n :
         <<slice(t, 1, n)>> \o split(slice(t, n + 1, Len(t)))))

\* the concatenation of a list of strings
RECURSIVE concat(_)
concat(ss) == IF ss = <<>> THEN <<>> ELSE Head(ss) \o concat(Tail(ss))

----------------------------------------------------------------------------
(* Configuration *)

DB_NAME == "streamlit_data.db"
MEMORY == ":memory:"
TABLE_NAME == <<"t","r","a","n","s","a","c","t","i","o","n","s">>
FallbackTableName ==
    <<"d","e","f","a","u","l","t","_","i","m","p","o","r","t","e","d","_","d","a","t","a">>

----------------------------------------------------------------------------
(* The SQLite store as pandas drives it.  A database is a set of tables     *)
(* [name, columns, rows]; the persistent one lives in the world's fs, an    *)
(* in-memory one lives only as long as the connection that created it.      *)

EmptyDb == {}

NoDuplicates(names) ==
    \A i, j \in DOMAIN names : lower(names[i]) = lower(names[j]) => i = j

\* SQLite resolves table and column names case-insensitively
FindTable(db, name) == {t \in db : lower(t.name) = lower(name)}
ColumnIndex(tbl, col) == {i \in DOMAIN tbl.columns : lower(tbl.columns[i]) = lower(col)}

\* how a cell is stored: a temporal value becomes its text
SqlCell(c) == IF c = "t:2024-01-01" THEN "s:2024-01-01 00:00:00" ELSE c
SqlRows(rows) == [i \in DOMAIN rows |-> [j \in DOMAIN rows[i] |-> SqlCell(rows[i][j])]]

\* to_sql with if_exists="append": the rows are added to the table found
to_sql_append(df, name, db, store, partial) ==
    LET old == {t \in db : t.name = name}
        ok == store = "ok" /\ NoDuplicates(df.columns)
    IN  IF ~ok THEN [ok |-> FALSE, db |-> db]
        ELSE IF old = {}
        THEN [ok |-> TRUE,
              db |-> db \cup {[name |-> name, columns |-> df.columns,
                               rows |-> SqlRows(df.rows)]}]
        ELSE [ok |-> TRUE,
              db |-> {IF t.name = name
                      THEN [t EXCEPT !.rows = @ \o SqlRows(df.rows)] ELSE t : t \in db}]

\* df.to_sql(name, conn, if_exists="replace", index=False): the table of
\* that exact name is dropped, then created and filled; store is the
\* backend's I/O verdict, partial whether a failing call got as far as the
\* drop
to_sql(df, name, db, store, partial) ==
    LET dropped == {t \in db : t.name # name}
        clash == \E t \in dropped : lower(t.name) = lower(name)
        ok == store = "ok" /\ NoDuplicates(df.columns) /\ ~clash
    IN  IF ok
        THEN [ok |-> TRUE,
              db |-> dropped \cup {[name |-> name, columns |-> df.columns,
                                    rows |-> SqlRows(df.rows)]}]
        ELSE [ok |-> FALSE, db |-> IF partial THEN dropped ELSE db]

S_select == <<"s","e","l","e","c","t">>
S_from == <<"f","r","o","m">>
S_star == <<"*">>
S_one == <<"1">>
S_no_such_table == <<"n","o"," ","s","u","c","h"," ","t","a","b","l","e">>
S_no_such_column == <<"n","o"," ","s","u","c","h"," ","c","o","l","u","m","n">>
S_colon == <<":"," ">>
S_near == <<"n","e","a","r"," ","\"">>
S_syntax_error == <<"\"",":"," ","s","y","n","t","a","x"," ","e","r","r","o","r">>
S_execution_failed ==
    <<"E","x","e","c","u","t","i","o","n"," ","f","a","i","l","e","d"," ",
      "o","n"," ","s","q","l"," ","'">>
S_quote_colon == <<"'",":"," ">>

\* the statements of the model: SELECT 1, SELECT * FROM t, SELECT c FROM t;
\* anything else is text the backend rejects
sqlite_execute(q, db) ==
    With(split(q), LAMBDA w :
    LET isSelect == Len(w) >= 1 /\ lower(w[1]) = S_select IN
    IF isSelect /\ Len(w) = 2 /\ w[2] = S_one
    THEN [ok |-> TRUE, df |-> [columns |-> <<S_one>>, rows |-> <<<<"i:1">>>>],
          msg |-> <<>>]
    ELSE IF isSelect /\ Len(w) = 4 /\ lower(w[3]) = S_from
    THEN IF FindTable(db, w[4]) = {}
         THEN [ok |-> FALSE, df |-> None,
               msg |-> S_no_such_table \o S_colon \o w[4]]
         ELSE With(CHOOSE t \in FindTable(db, w[4]) : TRUE, LAMBDA tbl :
              IF w[2] = S_star
              THEN [ok |-> TRUE,
                    df |-> [columns |-> tbl.columns, rows |-> tbl.rows],
                    msg |-> <<>>]
              ELSE IF ColumnIndex(tbl, w[2]) = {}
              THEN [ok |-> FALSE, df |-> None,
                    msg |-> S_no_such_column \o S_colon \o w[2]]
              ELSE LET c == CHOOSE i \in ColumnIndex(tbl, w[2]) : TRUE IN
                   [ok |-> TRUE,
                    df |-> [columns |-> <<tbl.columns[c]>>,
                            rows |-> [i \in DOMAIN tbl.rows |-> <<tbl.rows[i][c]>>]],
                    msg |-> <<>>])
    ELSE [ok |-> FALSE, df |-> None,
          msg |-> S_near \o (IF w = <<>> THEN <<>> ELSE w[1]) \o S_syntax_error])

\* pd.read_sql_query(query_str, conn): the frame, or the exception whose
\* text quotes the statement and then the backend's message
read_sql_query(q, db) ==
    With(sqlite_execute(q, db), LAMBDA r :
    IF r.ok THEN r
    ELSE [r EXCEPT !.msg = S_execution_failed \o q \o S_quote_colon \o r.msg])

----------------------------------------------------------------------------
(* The world a run acts on *)

Log(w, e) == [w EXCEPT !.log = Append(@, e)]

\* the run put question q ("store", "remove", "response") to the environment
Ask(w, q) == [w EXCEPT !.asked = @ \cup {q}]

\* sqlite3.connect(db_path): opens a connection; a file path creates the
\* file when it is missing
connect(w, db_path) ==
    [w EXCEPT !.conns = @ + 1,
              !.fs = IF db_path # MEMORY /\ IsNone(@) THEN Some(EmptyDb) ELSE @,
              !.log = Append(@, "sqlite3.connect")]

\* conn.close()
close(w) == [w EXCEPT !.conns = @ - 1, !.log = Append(@, "conn.close")]

\* the database a connection to db_path sees when it is opened
Visible(w, db_path) == IF db_path = MEMORY THEN EmptyDb ELSE Get(w.fs)

\* os.path.exists(db_path)
exists(w, db_path) == db_path # MEMORY /\ ~IsNone(w.fs)

----------------------------------------------------------------------------
(* src/runqueriesoncsvexcel.py: helper functions *)

\* the name used as it was given
given_table_name(table_name) == table_name

\* "".join(c if c.isalnum() else "_" for c in table_name), with the fallback
sane_table_name(table_name) ==
    LET s == [i \in DOMAIN table_name |->
                 IF isalnum(table_name[i]) THEN table_name[i] ELSE "_"]
    IN IF s = <<>> THEN FallbackTableName ELSE s

\* load_df_to_sqlite closing the connection on the success path only
load_df_to_sqlite_leak(w, df, db_path, table_name, env) ==
    With(Ask(connect(Log(w, "load_df_to_sqlite"), db_path), "store"), LAMBDA w1 :
    With(sane_table_name(table_name), LAMBDA sane :
    With(to_sql(df, sane, Visible(w1, db_path), env.store, env.partial), LAMBDA r :
    IF r.ok
    THEN close([w1 EXCEPT !.fs = IF db_path = MEMORY THEN @ ELSE Some(r.db),
                          !.ss.db_path_for_query = db_path,
                          !.ss.table_loaded = TRUE,
                          !.ss.current_table_name = sane])
    ELSE [Log(w1, "st.error: Error loading DataFrame to SQLite")
             EXCEPT !.fs = IF db_path = MEMORY THEN @ ELSE Some(r.db),
                    !.ss.table_loaded = FALSE])))

\* env.store, env.partial: see to_sql
load_df_to_sqlite(w, df, db_path, table_name, env) ==
    With(Ask(connect(Log(w, "load_df_to_sqlite"), db_path), "store"), LAMBDA w1 :
    With(sane_table_name(table_name), LAMBDA sane :
    With(to_sql(df, sane, Visible(w1, db_path), env.store, env.partial), LAMBDA r :
    close(IF r.ok
          THEN [w1 EXCEPT !.fs = IF db_path = MEMORY THEN @ ELSE Some(r.db),
                          !.ss.db_path_for_query = db_path,
                          !.ss.table_loaded = TRUE,
                          !.ss.current_table_name = sane]
          ELSE [Log(w1, "st.error: Error loading DataFrame to SQLite")
                   EXCEPT !.fs = IF db_path = MEMORY THEN @ ELSE Some(r.db),
                          !.ss.table_loaded = FALSE]))))

\* the values execute_query_on_db returns: a frame, or one of four strings
Frame(df) == [type |-> "DataFrame", kind |-> "ok", df |-> Some(df), detail |-> <<>>]
Str(kind, detail) == [type |-> "str", kind |-> kind, df |-> None, detail |-> detail]

\* execute_query_on_db without the test of the loaded flag (line 84)
execute_query_on_db_unguarded(w, query_str, db_path, current_table_name_for_error_msg) ==
    With(Log(w, "execute_query_on_db"), LAMBDA w0 :
    IF ~exists(w0, db_path) /\ db_path # MEMORY
    THEN [w |-> w0, ret |-> Str("Database file not found.", <<>>)]
    ELSE With(connect(w0, db_path), LAMBDA w1 :
         With(read_sql_query(query_str, Visible(w1, db_path)), LAMBDA r :
         [w |-> close(Log(w1, "pd.read_sql_query")),
          ret |-> IF r.ok THEN Frame(r.df)
                  ELSE IF contains(lower(r.msg), S_no_such_table)
                          /\ contains(lower(r.msg), current_table_name_for_error_msg)
                  THEN Str("Table not found. Reload file.", r.msg)
                  ELSE Str("Error executing query", r.msg)])))

\* returns the world after the call and the value returned
execute_query_on_db(w, query_str, db_path, current_table_name_for_error_msg) ==
    With(Log(w, "execute_query_on_db"), LAMBDA w0 :
    IF ~exists(w0, db_path) /\ db_path # MEMORY
    THEN [w |-> w0, ret |-> Str("Database file not found.", <<>>)]
    ELSE IF ~w0.ss.table_loaded /\ db_path = MEMORY
    THEN [w |-> w0, ret |-> Str("Table not loaded into in-memory DB.", <<>>)]
    ELSE With(connect(w0, db_path), LAMBDA w1 :
         With(read_sql_query(query_str, Visible(w1, db_path)), LAMBDA r :
         [w |-> close(Log(w1, "pd.read_sql_query")),
          ret |-> IF r.ok THEN Frame(r.df)
                  ELSE IF contains(lower(r.msg), S_no_such_table)
                          /\ contains(lower(r.msg), current_table_name_for_error_msg)
                  THEN Str("Table not found. Reload file.", r.msg)
                  ELSE Str("Error executing query", r.msg)])))

\* the grave accent U+0060 (a TLA+ string cannot hold it); a fence is three
Grave == "U+0060"
S_fence == <<Grave, Grave, Grave>>
S_sql == <<"s","q","l">>
LeadingKeywords ==
    {<<"S","E","L","E","C","T">>, <<"I","N","S","E","R","T">>,
     <<"U","P","D","A","T","E">>, <<"D","E","L","E","T","E">>,
     <<"W","I","T","H">>, <<"C","R","E","A","T","E">>,
     <<"A","L","T","E","R">>, <<"D","R","O","P">>}

\* the first position >= from at which p occurs in s, or 0
find(s, p, from) ==
    LET hits == {i \in from..(Len(s) - Len(p) + 1) : SubSeq(s, i, i + Len(p) - 1) = p}
    IN IF hits = {} THEN 0 ELSE CHOOSE i \in hits : \A j \in hits : i <= j

\* re.search of fence, optional "sql", \s*, lazy group 1, \s*, fence (DOTALL,
\* IGNORECASE):
\* matched, and group(1).strip()
fence_search(raw) ==
    With(find(raw, S_fence, 1), LAMBDA open :
    With(IF open # 0 /\ lower(slice(raw, open + 3, open + 5)) = S_sql
         THEN open + 6 ELSE open + 3, LAMBDA body :
    With(IF open = 0 THEN 0 ELSE find(raw, S_fence, body), LAMBDA shut :
    [matched |-> shut # 0,
     group1 |-> IF shut = 0 THEN <<>> ELSE strip(slice(raw, body, shut - 1))])))

\* re.sub(r"^\s*sql\s+", "", raw, flags=IGNORECASE).strip()
strip_sql_tag(raw) ==
    With(slice(raw, Len(raw) - Len(strip(raw \o <<"x">>)) + 2, Len(raw)), LAMBDA rest :
    IF lower(slice(rest, 1, 3)) = S_sql /\ Len(rest) >= 4 /\ isspace(rest[4])
    THEN strip(slice(rest, 4, Len(rest)))
    ELSE strip(raw))

\* parse_response looking for no fenced block
parse_response_unfenced(text) ==
    With(strip(text), LAMBDA raw_response :
    With(strip_sql_tag(raw_response), LAMBDA sql_query :
    [sql_query |-> sql_query,
     warning |-> ~\E k \in LeadingKeywords : startswith(upper(sql_query), k)]))

\* lines 68-76: the statement taken from the response text, and whether the
\* format warning is shown
parse_response(text) ==
    With(strip(text), LAMBDA raw_response :
    With(fence_search(raw_response), LAMBDA m :
    With(IF m.matched THEN m.group1 ELSE strip_sql_tag(raw_response), LAMBDA sql_query :
    [sql_query |-> sql_query,
     warning |-> ~m.matched
                 /\ ~\E k \in LeadingKeywords : startswith(upper(sql_query), k)])))

\* env.response: None when the remote call (or reading its text) raises,
\* else the response text.  Returns the world and the value returned.
generate_sql_query(w, client_instance, model_id_str, user_prompt_str, headers_list, current_table_name_for_llm, env) ==
    IF ~client_instance
    THEN [w |-> Log(w, "st.error: Gemini client not initialized."), ret |-> None]
    ELSE IF model_id_str = <<>>
    THEN [w |-> Log(w, "st.error: Gemini Model ID not provided."), ret |-> None]
    ELSE LET w1 == [Ask(Log(w, "generate_content"), "response")
                       EXCEPT !.remote = Append(@, [conns |-> w.conns,
                                                    response |-> env.response,
                                                    model |-> model_id_str])] IN
         IF IsNone(env.response)
         THEN [w |-> Log(w1, "st.error: Error calling Gemini API"), ret |-> None]
         ELSE With(parse_response(Get(env.response)), LAMBDA p :
              [w |-> IF p.warning
                     THEN Log(w1, "st.warning: LLM did not return query in expected format.")
                     ELSE w1,
               ret |-> Some(p.sql_query)])

\* df.to_json(orient="records", date_format="iso", default_handler=str):
\* None (with an error shown) when the column labels are not unique
JsonCell(c) == IF c = "t:2024-01-01" THEN "s:2024-01-01T00:00:00.000" ELSE c
dataframe_to_optimized_json(w, df) ==
    IF \E i, j \in DOMAIN df.columns : i # j /\ df.columns[i] = df.columns[j]
    THEN [w |-> Log(w, "st.error: Error converting DataFrame to JSON"), ret |-> None]
    ELSE [w |-> w,
          ret |-> Some([i \in DOMAIN df.rows |->
                          [j \in DOMAIN df.columns |->
                              <<df.columns[j], JsonCell(df.rows[i][j])>>]])]

----------------------------------------------------------------------------
(* src/runqueriesoncsvexcel.py: main(), section by section.                 *)
(* ev is the widget event that caused the run (ev.button the button clicked *)
(* if any, with the text inputs' values); env is what the environment       *)
(* answers during the run.                                                  *)

\* str(col) of a raw column label: text stays, a number becomes its digits
python_str(col) == IF col.t = "str" THEN col.v ELSE <<Digits[col.v + 1]>>

\* lines 125-148: backend checkbox and the "Initialize Gemini Client" button
sidebar(w, use_in_memory_db, ev, env) ==
    LET w1 == [w EXCEPT !.ss.db_path_for_query =
                            IF use_in_memory_db THEN MEMORY ELSE DB_NAME]
    IN  IF ev.button # "init" THEN w1
        ELSE IF ev.api_key = <<>> \/ ev.model_id = <<>>
        THEN Log(w1, "st.warning: Please enter API key and Model ID.")
        ELSE LET w2 == [Ask(Log(w1, "generate_content"), "response")
                           EXCEPT !.ss.gemini_client = TRUE,
                                  !.ss.gemini_model_id = ev.model_id,
                                  !.remote = Append(@, [conns |-> w1.conns,
                                                        response |-> env.response,
                                                        model |-> ev.model_id])]
             IN  IF IsNone(env.response) \/ env.response = Some(<<>>)
                 THEN [Log(w2, "st.error: Failed to initialize Gemini client")
                          EXCEPT !.ss.gemini_client = FALSE]
                 ELSE Log(w2, "st.success: Gemini client initialized!")

\* reset_on_new_file leaving the loaded flag as it was
reset_on_new_file_flag(w, uploaded_file, env) ==
    IF w.ss.uploaded_file_name = Some(uploaded_file.name) THEN w
    ELSE LET w1 == [w EXCEPT !.ss.df_loaded = None,
                             !.ss.headers = None,
                             !.ss.json_data_for_download = None,
                             !.ss.generated_sql_query = None,
                             !.ss.uploaded_file_name = Some(uploaded_file.name),
                             !.ss.current_table_name = TABLE_NAME]
         IN  IF w1.ss.db_path_for_query # MEMORY /\ exists(w1, w1.ss.db_path_for_query)
             THEN IF env.remove
                  THEN [Ask(Log(w1, "st.info: Removed old database file"), "remove")
                           EXCEPT !.fs = None]
                  ELSE Ask(Log(w1, "st.warning: Could not remove old db file"), "remove")
             ELSE w1

\* reset_on_new_file taking every file handed to a run for a new one
reset_on_new_file_always(w, uploaded_file, env) ==
    IF FALSE THEN w
    ELSE LET w1 == [w EXCEPT !.ss.df_loaded = None,
                             !.ss.table_loaded = FALSE,
                             !.ss.headers = None,
                             !.ss.json_data_for_download = None,
                             !.ss.generated_sql_query = None,
                             !.ss.uploaded_file_name = Some(uploaded_file.name),
                             !.ss.current_table_name = TABLE_NAME]
         IN  IF w1.ss.db_path_for_query # MEMORY /\ exists(w1, w1.ss.db_path_for_query)
             THEN IF env.remove
                  THEN [Ask(Log(w1, "st.info: Removed old database file"), "remove")
                           EXCEPT !.fs = None]
                  ELSE Ask(Log(w1, "st.warning: Could not remove old db file"), "remove")
             ELSE w1

\* lines 156-170: a file of another name resets the session and removes the
\* persistent database file (env.remove = FALSE: os.remove raises)
reset_on_new_file(w, uploaded_file, env) ==
    IF w.ss.uploaded_file_name = Some(uploaded_file.name) THEN w
    ELSE LET w1 == [w EXCEPT !.ss.df_loaded = None,
                             !.ss.table_loaded = FALSE,
                             !.ss.headers = None,
                             !.ss.json_data_for_download = None,
                             !.ss.generated_sql_query = None,
                             !.ss.uploaded_file_name = Some(uploaded_file.name),
                             !.ss.current_table_name = TABLE_NAME]
         IN  IF w1.ss.db_path_for_query # MEMORY /\ exists(w1, w1.ss.db_path_for_query)
             THEN IF env.remove
                  THEN [Ask(Log(w1, "st.info: Removed old database file"), "remove")
                           EXCEPT !.fs = None]
                  ELSE Ask(Log(w1, "st.warning: Could not remove old db file"), "remove")
             ELSE w1

\* line 151: st.file_uploader(type=[...]) offers the files whose extension,
\* whatever its case, is one of the types
file_uploader(name, types) == \E t \in types : endswith(lower(name), t)

S_csv == <<".","c","s","v">>
S_xls == <<".","x","l","s">>
S_xlsx == <<".","x","l","s","x">>
S_dollar == "$"

\* parse_file keeping what was read so far when the read fails
parse_file_partial(w, uploaded_file) ==
    IF ~IsNone(w.ss.df_loaded) THEN w
    ELSE LET name == uploaded_file.name
             reader == IF endswith(name, S_csv) THEN "csv"
                       ELSE IF endswith(name, S_xls) \/ endswith(name, S_xlsx)
                       THEN "excel" ELSE "none"
         IN  IF reader = "none" THEN w
             ELSE IF reader # uploaded_file.format
             THEN [Log(w, "st.error: Error parsing file or processing headers")
                      EXCEPT !.ss.df_loaded = Some([columns |-> <<>>, rows |-> <<>>]),
                             !.ss.headers = Some(<<>>)]
             ELSE With([i \in DOMAIN uploaded_file.columns |->
                           python_str(uploaded_file.columns[i])],
                       LAMBDA stringified_headers :
                  With(\E i \in DOMAIN stringified_headers :
                           S_dollar \in Range(stringified_headers[i]), LAMBDA found :
                  With(IF found
                       THEN [i \in DOMAIN stringified_headers |->
                                removeChar(stringified_headers[i], S_dollar)]
                       ELSE stringified_headers, LAMBDA columns :
                  With([columns |-> columns, rows |-> uploaded_file.rows],
                       LAMBDA current_df :
                  With([Log(IF found
                            THEN Log(w, "st.info: '$' found in a column header.")
                            ELSE w, "st.success: File parsed.")
                           EXCEPT !.ss.df_loaded = Some(current_df),
                                  !.ss.headers = Some(columns)], LAMBDA w2 :
                  With(dataframe_to_optimized_json(w2, current_df), LAMBDA j :
                  IF IsNone(j.ret) THEN j.w
                  ELSE [j.w EXCEPT !.ss.json_data_for_download = j.ret]))))))

\* lines 172-226: parse the file and clean the headers
parse_file(w, uploaded_file) ==
    IF ~IsNone(w.ss.df_loaded) THEN w
    ELSE LET name == uploaded_file.name
             reader == IF endswith(name, S_csv) THEN "csv"
                       ELSE IF endswith(name, S_xls) \/ endswith(name, S_xlsx)
                       THEN "excel" ELSE "none"
         IN  IF reader = "none" THEN w
             ELSE IF reader # uploaded_file.format
             THEN [Log(w, "st.error: Error parsing file or processing headers")
                      EXCEPT !.ss.df_loaded = None,
                             !.ss.headers = None,
                             !.ss.json_data_for_download = None]
             ELSE With([i \in DOMAIN uploaded_file.columns |->
                           python_str(uploaded_file.columns[i])],
                       LAMBDA stringified_headers :
                  With(\E i \in DOMAIN stringified_headers :
                           S_dollar \in Range(stringified_headers[i]), LAMBDA found :
                  With(IF found
                       THEN [i \in DOMAIN stringified_headers |->
                                removeChar(stringified_headers[i], S_dollar)]
                       ELSE stringified_headers, LAMBDA columns :
                  With([columns |-> columns, rows |-> uploaded_file.rows],
                       LAMBDA current_df :
                  With([Log(IF found
                            THEN Log(w, "st.info: '$' found in a column header.")
                            ELSE w, "st.success: File parsed.")
                           EXCEPT !.ss.df_loaded = Some(current_df),
                                  !.ss.headers = Some(columns)], LAMBDA w2 :
                  With(dataframe_to_optimized_json(w2, current_df), LAMBDA j :
                  IF IsNone(j.ret) THEN j.w
                  ELSE [j.w EXCEPT !.ss.json_data_for_download = j.ret]))))))

\* load_if_needed calling load_df_to_sqlite a second time when it failed
load_if_needed_retry(w, env) ==
    IF IsNone(w.ss.df_loaded) \/ w.ss.table_loaded THEN w
    ELSE With(load_df_to_sqlite(w, Get(w.ss.df_loaded), w.ss.db_path_for_query,
                                w.ss.current_table_name, env), LAMBDA w1 :
         With(IF w1.ss.table_loaded THEN w1
              ELSE load_df_to_sqlite(w1, Get(w.ss.df_loaded), w.ss.db_path_for_query,
                                     w.ss.current_table_name, env), LAMBDA w2 :
         IF w2.ss.table_loaded THEN Log(w2, "st.success: Data loaded into table")
         ELSE Log(w2, "st.error: Failed to load data into SQLite table.")))

\* lines 228-249: load the frame while the table is not marked loaded
load_if_needed(w, env) ==
    IF IsNone(w.ss.df_loaded) \/ w.ss.table_loaded THEN w
    ELSE With(load_df_to_sqlite(w, Get(w.ss.df_loaded), w.ss.db_path_for_query,
                                w.ss.current_table_name, env), LAMBDA w1 :
         IF w1.ss.table_loaded THEN Log(w1, "st.success: Data loaded into table")
         ELSE Log(w1, "st.error: Failed to load data into SQLite table."))

\* lines 153-249
upload_section(w, uploaded_file, env) ==
    IF IsNone(uploaded_file) THEN w
    ELSE load_if_needed(
             parse_file(reset_on_new_file(w, Get(uploaded_file), env), Get(uploaded_file)),
             env)

\* a query executed in this run and what came back
Executed(r, query, db_path) ==
    [r.w EXCEPT !.execs = Append(@, [query |-> query, db_path |-> db_path,
                                     loaded |-> r.w.ss.table_loaded, ret |-> r.ret]),
                !.log = IF r.ret.type = "DataFrame" THEN @
                        ELSE Append(@, "st.error: Query Execution Failed")]

\* generate_button storing the statement only when there is one
generate_button_keep(w, ev, env) ==
    IF ev.button # "generate" THEN w
    ELSE IF ~w.ss.gemini_client THEN Log(w, "st.error: Gemini client not initialized.")
    ELSE IF ev.prompt = <<>>
    THEN Log(w, "st.warning: Please enter a natural language query.")
    ELSE With(generate_sql_query(w, w.ss.gemini_client, w.ss.gemini_model_id,
                                 ev.prompt, Get(w.ss.headers),
                                 w.ss.current_table_name, env), LAMBDA g :
         IF ~IsNone(g.ret) /\ Get(g.ret) # <<>>
         THEN Log([g.w EXCEPT !.ss.generated_sql_query = g.ret], "st.code: sql_query")
         ELSE Log(g.w, "st.error: Could not generate SQL query."))

\* lines 267-285: the "Generate SQL Query" button
generate_button(w, ev, env) ==
    IF ev.button # "generate" THEN w
    ELSE IF ~w.ss.gemini_client THEN Log(w, "st.error: Gemini client not initialized.")
    ELSE IF ev.prompt = <<>>
    THEN Log(w, "st.warning: Please enter a natural language query.")
    ELSE With(generate_sql_query(w, w.ss.gemini_client, w.ss.gemini_model_id,
                                 ev.prompt, Get(w.ss.headers),
                                 w.ss.current_table_name, env), LAMBDA g :
         With([g.w EXCEPT !.ss.generated_sql_query = g.ret], LAMBDA w1 :
         IF ~IsNone(g.ret) /\ Get(g.ret) # <<>> THEN Log(w1, "st.code: sql_query")
         ELSE Log(w1, "st.error: Could not generate SQL query.")))

\* lines 287-306: the "Execute Generated SQL Query" button
execute_generated_button(w, ev) ==
    IF IsNone(w.ss.generated_sql_query) \/ w.ss.generated_sql_query = Some(<<>>)
       \/ ev.button # "execute_generated"
    THEN w
    ELSE Executed(execute_query_on_db(w, Get(w.ss.generated_sql_query),
                                      w.ss.db_path_for_query, w.ss.current_table_name),
                  Get(w.ss.generated_sql_query), w.ss.db_path_for_query)

\* lines 308-334: the "Execute Direct SQL Query" button
execute_direct_button(w, ev) ==
    IF ev.button # "execute_direct" THEN w
    ELSE IF strip(ev.direct_sql_query) = <<>>
    THEN Log(w, "st.warning: Please enter an SQL query.")
    ELSE Executed(execute_query_on_db(w, ev.direct_sql_query, w.ss.db_path_for_query,
                                      w.ss.current_table_name),
                  ev.direct_sql_query, w.ss.db_path_for_query)

\* the tabs drawn as soon as a frame is held
tabs_of_frame(w) == ~IsNone(w.ss.df_loaded) /\ ~IsNone(w.ss.headers)

\* line 251: the condition under which the tabs and their buttons are drawn
tabs(w) == w.ss.table_loaded /\ ~IsNone(w.ss.headers) /\ Get(w.ss.headers) # <<>>

\* lines 251-339
query_section(w, uploaded_file, ev, env) ==
    IF tabs(w)
    THEN execute_direct_button(execute_generated_button(generate_button(w, ev, env), ev),
                               ev)
    ELSE IF ~IsNone(uploaded_file) THEN Log(w, "st.info: Processing uploaded file.")
    ELSE Log(w, "st.info: Welcome! Please upload a CSV or XLSX file to begin.")

\* lines 98-339: one run of the script
main(w, use_in_memory_db_, uploaded_file_, ev, env) ==
    query_section(
        upload_section(sidebar(w, use_in_memory_db_, ev, env), uploaded_file_, env),
        uploaded_file_, ev, env)

----------------------------------------------------------------------------
(* src/app.py: the CSV-only script.  Its session state has the fields of    *)
(* lines 94-105; generated_sql_query is read with .get (None when unset).   *)

app_load_df_to_sqlite(w, df, db_path, table_name, env) ==
    With(Ask(connect(Log(w, "load_df_to_sqlite"), db_path), "store"), LAMBDA w1 :
    With(to_sql(df, table_name, Visible(w1, db_path), env.store, env.partial), LAMBDA r :
    close(IF r.ok
          THEN [w1 EXCEPT !.fs = IF db_path = MEMORY THEN @ ELSE Some(r.db),
                          !.ss.db_path_for_query = db_path,
                          !.ss.table_loaded = TRUE]
          ELSE [Log(w1, "st.error: Error loading DataFrame to SQLite")
                   EXCEPT !.fs = IF db_path = MEMORY THEN @ ELSE Some(r.db),
                          !.ss.table_loaded = FALSE])))

app_SubKeywords ==
    {<<"S","E","L","E","C","T">>, <<"I","N","S","E","R","T">>,
     <<"U","P","D","A","T","E">>, <<"D","E","L","E","T","E">>,
     <<"C","R","E","A","T","E">>, <<"A","L","T","E","R">>, <<"D","R","O","P">>}
app_StartKeywords ==
    {<<"S","E","L","E","C","T">>, <<"I","N","S","E","R","T">>,
     <<"U","P","D","A","T","E">>, <<"D","E","L","E","T","E">>, <<"W","I","T","H">>}

\* a keyword of ks followed by white space starts s
app_keyword_at(s, ks) ==
    \E k \in ks : /\ startswith(upper(s), k)
                  /\ Len(s) > Len(k) /\ isspace(s[Len(k) + 1])

\* lines 54-56: re.sub of a leading "sql" tag before a keyword, then strip()
app_strip_sql_tag(raw) ==
    With(slice(raw, 4, Len(raw)), LAMBDA rest :
    With(slice(rest, Len(rest) - Len(strip(rest \o <<"x">>)) + 2, Len(rest)), LAMBDA body :
    IF lower(slice(raw, 1, 3)) = S_sql /\ app_keyword_at(body, app_SubKeywords)
    THEN strip(body)
    ELSE strip(raw)))

\* lines 49-59
app_parse_response(text) ==
    With(strip(text), LAMBDA raw_response :
    With(fence_search(raw_response), LAMBDA m :
    With(IF m.matched THEN m.group1 ELSE app_strip_sql_tag(raw_response), LAMBDA sql_query :
    With(~m.matched /\ ~\E k \in app_StartKeywords : startswith(upper(sql_query), k),
         LAMBDA warning :
    [sql_query |-> IF warning THEN raw_response ELSE sql_query,
     warning |-> warning]))))

app_generate_sql_query(w, client_instance, model_id_str, user_prompt_str, headers_list, env) ==
    IF ~client_instance
    THEN [w |-> Log(w, "st.error: Gemini client not initialized."), ret |-> None]
    ELSE LET w1 == [Ask(Log(w, "generate_content"), "response")
                       EXCEPT !.remote = Append(@, [conns |-> w.conns,
                                                    response |-> env.response,
                                                    model |-> model_id_str])] IN
         IF IsNone(env.response)
         THEN [w |-> Log(w1, "st.error: Error calling Gemini API"), ret |-> None]
         ELSE With(app_parse_response(Get(env.response)), LAMBDA p :
              [w |-> IF p.warning
                     THEN Log(w1, "st.warning: LLM did not return a query in expected format.")
                     ELSE w1,
               ret |-> Some(p.sql_query)])

app_execute_query_on_db(w, query_str, db_path) ==
    With(Log(w, "execute_query_on_db"), LAMBDA w0 :
    IF ~exists(w0, db_path) /\ db_path # MEMORY
    THEN [w |-> w0, ret |-> Str("Database file not found. Please load CSV first.", <<>>)]
    ELSE IF ~w0.ss.table_loaded /\ db_path = MEMORY
    THEN [w |-> w0,
          ret |-> Str("Table not loaded into in-memory database for this session.", <<>>)]
    ELSE With(connect(w0, db_path), LAMBDA w1 :
         With(read_sql_query(query_str, Visible(w1, db_path)), LAMBDA r :
         [w |-> close(Log(w1, "pd.read_sql_query")),
          ret |-> IF r.ok THEN Frame(r.df)
                  ELSE IF contains(lower(r.msg), S_no_such_table)
                          /\ contains(lower(r.msg), TABLE_NAME)
                  THEN Str("Error executing query. Try re-loading the CSV.", r.msg)
                  ELSE Str("Error executing query", r.msg)])))

\* lines 94-105
app_InitialSessionState ==
    [gemini_client |-> FALSE,
     headers |-> None,
     uploaded_file_name |-> None,
     df_loaded |-> None,
     table_loaded |-> FALSE,
     db_path_for_query |-> DB_NAME,
     generated_sql_query |-> None]

\* lines 113-132: genai.Client(api_key=...) makes no remote call
app_sidebar(w, use_in_memory_db, ev) ==
    LET w1 == [w EXCEPT !.ss.db_path_for_query =
                            IF use_in_memory_db THEN MEMORY ELSE DB_NAME]
    IN  IF ev.button # "init" THEN w1
        ELSE IF ev.api_key = <<>> THEN Log(w1, "st.warning: Please enter an API key.")
        ELSE [Log(w1, "st.success: Gemini client initialized successfully!")
                 EXCEPT !.ss.gemini_client = TRUE]

\* lines 140-150
app_reset_on_new_file(w, uploaded_file, env) ==
    IF w.ss.uploaded_file_name = Some(uploaded_file.name) THEN w
    ELSE LET w1 == [w EXCEPT !.ss.df_loaded = None,
                             !.ss.table_loaded = FALSE,
                             !.ss.headers = None,
                             !.ss.uploaded_file_name = Some(uploaded_file.name)]
         IN  IF w1.ss.db_path_for_query # MEMORY /\ exists(w1, w1.ss.db_path_for_query)
             THEN IF env.remove
                  THEN [Ask(Log(w1, "st.info: Removed old database file"), "remove")
                           EXCEPT !.fs = None]
                  ELSE Ask(Log(w1, "st.warning: Could not remove old db file"), "remove")
             ELSE w1

\* lines 153-162: decode and pd.read_csv, whatever the file's name
app_parse_file(w, uploaded_file) ==
    IF ~IsNone(w.ss.df_loaded) THEN w
    ELSE IF uploaded_file.format # "csv"
    THEN [Log(w, "st.error: Error parsing CSV file")
             EXCEPT !.ss.df_loaded = None, !.ss.headers = None]
    ELSE LET columns == [i \in DOMAIN uploaded_file.columns |->
                            python_str(uploaded_file.columns[i])]
         IN  [Log(w, "st.success: CSV parsed successfully.")
                 EXCEPT !.ss.df_loaded = Some([columns |-> columns,
                                               rows |-> uploaded_file.rows]),
                        !.ss.headers = Some(columns)]

\* lines 164-171
app_load_if_needed(w, env) ==
    IF IsNone(w.ss.df_loaded) \/ w.ss.table_loaded THEN w
    ELSE With(app_load_df_to_sqlite(w, Get(w.ss.df_loaded), w.ss.db_path_for_query,
                                    TABLE_NAME, env), LAMBDA w1 :
         IF w1.ss.table_loaded THEN Log(w1, "st.success: Data loaded into table")
         ELSE Log(w1, "st.error: Failed to load data into SQLite table."))

\* lines 138-171
app_upload_section(w, uploaded_file, env) ==
    IF IsNone(uploaded_file) THEN w
    ELSE app_load_if_needed(
             app_parse_file(app_reset_on_new_file(w, Get(uploaded_file), env),
                            Get(uploaded_file)),
             env)

\* lines 182-199
app_generate_button(w, ev, env) ==
    IF ev.button # "generate" THEN w
    ELSE IF ~w.ss.gemini_client THEN Log(w, "st.error: Gemini client not initialized.")
    ELSE IF ev.prompt = <<>>
    THEN Log(w, "st.warning: Please enter a natural language query.")
    ELSE With(app_generate_sql_query(w, w.ss.gemini_client, ev.model_id,
                                     ev.prompt, Get(w.ss.headers), env), LAMBDA g :
         With([g.w EXCEPT !.ss.generated_sql_query = g.ret], LAMBDA w1 :
         IF ~IsNone(g.ret) /\ Get(g.ret) # <<>> THEN Log(w1, "st.code: sql_query")
         ELSE Log(w1, "st.error: Could not generate SQL query.")))

\* lines 201-238: the re-load of lines 217-219 stands under two tests of the
\* loaded flag that cannot both pass
app_execute_generated_button(w, ev, env) ==
    IF IsNone(w.ss.generated_sql_query) \/ w.ss.generated_sql_query = Some(<<>>)
       \/ ev.button # "execute_generated"
    THEN w
    ELSE IF ~w.ss.table_loaded THEN Log(w, "st.error: Table not loaded.")
    ELSE With(IF w.ss.db_path_for_query = MEMORY /\ ~w.ss.table_loaded
              THEN app_load_df_to_sqlite(w, Get(w.ss.df_loaded), MEMORY, TABLE_NAME, env)
              ELSE w, LAMBDA w1 :
         Executed(app_execute_query_on_db(w1, Get(w1.ss.generated_sql_query),
                                          w1.ss.db_path_for_query),
                  Get(w1.ss.generated_sql_query), w1.ss.db_path_for_query))

\* lines 173-242
app_query_section(w, uploaded_file, ev, env) ==
    IF w.ss.table_loaded /\ ~IsNone(w.ss.headers) /\ Get(w.ss.headers) # <<>>
    THEN app_execute_generated_button(app_generate_button(w, ev, env), ev, env)
    ELSE IF ~IsNone(uploaded_file) THEN Log(w, "st.info: Processing uploaded CSV.")
    ELSE Log(w, "st.info: Please upload a CSV file to begin.")

\* lines 89-242: one run of the script
app_main(w, use_in_memory_db_, uploaded_file_, ev, env) ==
    app_query_section(
        app_upload_section(app_sidebar(w, use_in_memory_db_, ev), uploaded_file_, env),
        uploaded_file_, ev, env)

----------------------------------------------------------------------------
(* The inputs of the model *)

Text(v) == [t |-> "str", v |-> v]
Number(v) == [t |-> "int", v |-> v]

N_A_csv == <<"A",".","c","s","v">>
N_B_csv == <<"B",".","c","s","v">>
N_C_csv == <<"C",".","c","s","v">>
N_D_csv == <<"D",".","c","s","v">>
N_T_xlsx == <<"T",".","x","l","s","x">>
N_E_CSV == <<"E",".","C","S","V">>
H_Amt == <<"A","m","t">>
H_Date == <<"D","a","t","e">>
H_Price == <<"P","r","i","c","e">>
H_Qty == <<"Q","t","y">>
H_When == <<"W","h","e","n">>
H_A == <<"A">>

\* the files a user may upload: the name, what the bytes really are, and
\* (for readable bytes) the header row and the data rows as pandas reads them
FileUniverse ==
    << [name |-> N_A_csv, format |-> "csv",
        columns |-> <<Text(H_Amt \o <<"$">>), Text(H_Date)>>,
        rows |-> << <<"i:1", "s:x">> >>],
       [name |-> N_T_xlsx, format |-> "excel",
        columns |-> <<Number(7), Text(H_Date)>>,
        rows |-> << <<"i:2", "t:2024-01-01">>, <<"i:1", "null">> >>],
       [name |-> N_A_csv, format |-> "csv",
        columns |-> <<Text(H_Qty)>>,
        rows |-> << <<"i:2">>, <<"i:2">> >>],
       [name |-> N_C_csv, format |-> "bad", columns |-> <<>>, rows |-> <<>>],
       [name |-> N_D_csv, format |-> "csv",
        columns |-> <<Text(H_A \o <<"$">>), Text(H_A)>>,
        rows |-> << <<"i:1", "i:2">> >>],
       [name |-> N_E_CSV, format |-> "csv",
        columns |-> <<Text(H_Date)>>,
        rows |-> << <<"s:x">> >>],
       [name |-> N_B_csv, format |-> "csv",
        columns |-> <<Text(H_Price), Text(H_Date)>>,
        rows |-> << <<"i:2", "s:y">>, <<"i:1", "null">>, <<"i:1", "s:x">> >>] >>

NumFiles == 6
Files == {FileUniverse[i] : i \in 1..NumFiles}

K_SELECT == <<"S","E","L","E","C","T">>
K_FROM == <<"F","R","O","M">>
Sp == <<" ">>
Nl == <<"\n">>
Select(what, table) == K_SELECT \o Sp \o what \o Sp \o K_FROM \o Sp \o table

Q_all == Select(S_star, TABLE_NAME)
Q_Amt == Select(H_Amt, TABLE_NAME)
Q_Date == Select(H_Date, TABLE_NAME)
Q_one == K_SELECT \o Sp \o S_one
Q_prose == <<"S","u","r","e","!">> \o Sp \o Q_all
Q_blank == <<" ">>

\* what the user types into the direct-SQL box
DirectQueries == {Q_all, Q_Amt, Q_Date, Q_one, Q_prose, Q_blank}

\* what the remote model answers: an exception (None), or a text
Responses ==
    {None, Some(<<>>), Some(S_fence \o S_sql \o Nl \o Q_all \o Nl \o S_fence),
     Some(Q_prose)}

Prompts == {<<>>, <<"s","h","o","w">>}
ApiKeys == {<<>>, <<"k","e","y">>}
DefaultModelId ==
    <<"g","e","m","i","n","i","-","1",".","5","-","f","l","a","s","h","-",
      "l","a","t","e","s","t">>
ModelIds == {<<>>, DefaultModelId}

\* what the environment may answer during a run: to the store calls of a
\* load, to os.remove, to the remote call
Envs(stores, removes, responses) ==
    {e \in [store : stores, partial : BOOLEAN, remove : removes, response : responses] :
        e.store = "ok" => ~e.partial}
Calm == [store |-> "ok", partial |-> FALSE, remove |-> TRUE, response |-> None]

\* env answers only what the run asked: every other answer is Calm's, so
\* that one run is one step
Asked(env, asked) ==
    /\ "store" \in asked \/ (env.store = Calm.store /\ env.partial = Calm.partial)
    /\ "remove" \in asked \/ env.remove = Calm.remove
    /\ "response" \in asked \/ env.response = Calm.response

NoEvent == [button |-> "none", api_key |-> <<>>, model_id |-> <<>>,
            prompt |-> <<>>, direct_sql_query |-> <<>>]

----------------------------------------------------------------------------
(* The session *)

VARIABLES
    ss,                 \* st.session_state
    fs,                 \* the persistent database file: None, or Some(db)
    conns,              \* open sqlite3 connections
    use_in_memory_db,   \* the sidebar checkbox
    uploaded_file,      \* the file uploader: None, or Some(file)
    last                \* the last run: its event, the database file it
                        \* found, and what it did

vars == <<ss, fs, conns, use_in_memory_db, uploaded_file, last>>

\* lines 103-115
InitialSessionState ==
    [gemini_client |-> FALSE,
     gemini_model_id |-> DefaultModelId,
     headers |-> None,
     uploaded_file_name |-> None,
     df_loaded |-> None,
     table_loaded |-> FALSE,
     db_path_for_query |-> DB_NAME,
     json_data_for_download |-> None,
     generated_sql_query |-> None,
     current_table_name |-> TABLE_NAME]

Init ==
    /\ ss = InitialSessionState
    /\ fs = None
    /\ conns = 0
    /\ use_in_memory_db = FALSE
    /\ uploaded_file = None
    /\ last = [event |-> "start", fs |-> None, log |-> <<>>, remote |-> <<>>,
               execs |-> <<>>]

World == [ss |-> ss, fs |-> fs, conns |-> conns, log |-> <<>>, remote |-> <<>>,
          execs |-> <<>>, asked |-> {}]

\* the run caused by event `name` with the widgets as given
Run(name, use_in_memory_db_, uploaded_file_, ev, env) ==
    \E w \in {main(World, use_in_memory_db_, uploaded_file_, ev, env)} :
    /\ Asked(env, w.asked)
    /\ ss' = w.ss
    /\ fs' = w.fs
    /\ conns' = w.conns
    /\ use_in_memory_db' = use_in_memory_db_
    /\ uploaded_file' = uploaded_file_
    /\ last' = [event |-> name, fs |-> fs, log |-> w.log, remote |-> w.remote,
                execs |-> w.execs]

\* the tabs (and their buttons) were drawn by the last run
TabsDrawn == tabs(World)

\* the user ticks or unticks "Use In-Memory Database"
ToggleBackend ==
    \E env \in Envs({"ok", "fail"}, {TRUE}, {None}) :
        Run("toggle", ~use_in_memory_db, uploaded_file, NoEvent, env)

\* the user picks a file in the uploader
UploadFile ==
    \E f \in Files, env \in Envs({"ok", "fail"}, BOOLEAN, {None}) :
        /\ file_uploader(f.name, {S_csv, S_xlsx})
        /\ uploaded_file # Some(f)
        /\ Run("upload", use_in_memory_db, Some(f), NoEvent, env)

\* the user clears the uploader
RemoveFile ==
    \E env \in {Calm} :
        /\ ~IsNone(uploaded_file)
        /\ Run("remove", use_in_memory_db, None, NoEvent, env)

\* a rerun without a button (a text input changed)
Rerun ==
    \E env \in Envs({"ok", "fail"}, {TRUE}, {None}) :
        Run("rerun", use_in_memory_db, uploaded_file, NoEvent, env)

\* the user clicks "Initialize Gemini Client"
InitClient ==
    \E k \in ApiKeys, m \in ModelIds, env \in Envs({"ok"}, {TRUE}, Responses) :
        Run("init", use_in_memory_db, uploaded_file,
            [NoEvent EXCEPT !.button = "init", !.api_key = k, !.model_id = m], env)

\* the user clicks "Generate SQL Query" (disabled without a client)
Generate ==
    \E p \in Prompts, env \in Envs({"ok"}, {TRUE}, Responses) :
        /\ TabsDrawn /\ ss.gemini_client
        /\ Run("generate", use_in_memory_db, uploaded_file,
               [NoEvent EXCEPT !.button = "generate", !.prompt = p], env)

\* the user clicks "Execute Generated SQL Query"
ExecuteGenerated ==
    \E env \in {Calm} :
        /\ TabsDrawn
        /\ ~IsNone(ss.generated_sql_query) /\ Get(ss.generated_sql_query) # <<>>
        /\ Run("execute_generated", use_in_memory_db, uploaded_file,
               [NoEvent EXCEPT !.button = "execute_generated"], env)

\* the user clicks "Execute Direct SQL Query"
ExecuteDirect ==
    \E q \in DirectQueries, env \in {Calm} :
        /\ TabsDrawn
        /\ Run("execute_direct", use_in_memory_db, uploaded_file,
               [NoEvent EXCEPT !.button = "execute_direct", !.direct_sql_query = q], env)

Next ==
    \/ ToggleBackend
    \/ UploadFile
    \/ RemoveFile
    \/ Rerun
    \/ InitClient
    \/ Generate
    \/ ExecuteGenerated
    \/ ExecuteDirect

Spec == Init /\ [][Next]_vars

----------------------------------------------------------------------------
(* The store functions called on their own: load_df_to_sqlite and           *)
(* execute_query_on_db of src/runqueriesoncsvexcel.py applied to frames,    *)
(* backend targets, relation names and statements drawn from small sets.    *)
(* last.call is the call just made, last.loaded the last load that          *)
(* succeeded (None after one that failed).                                  *)

Frames ==
    {[columns |-> <<H_Amt, H_Date>>, rows |-> << <<"i:1", "s:x">> >>],
     [columns |-> <<H_Qty, H_Date>>,
      rows |-> << <<"i:2", "t:2024-01-01">>, <<"i:1", "null">> >>],
     [columns |-> <<H_A, H_A>>, rows |-> << <<"i:1", "i:2">> >>]}

N_my_t == <<"m","y","-","t">>
TableNames == {TABLE_NAME, N_my_t}
Targets == {DB_NAME, MEMORY}
Statements ==
    {Select(S_star, sane_table_name(n)) : n \in TableNames}
        \cup {Select(H_Amt, TABLE_NAME), Q_one, Q_prose}

UnitInit ==
    /\ ss = InitialSessionState
    /\ fs = None
    /\ conns = 0
    /\ use_in_memory_db = FALSE
    /\ uploaded_file = None
    /\ last = [event |-> "start", fs |-> None, log |-> <<>>, remote |-> <<>>,
               execs |-> <<>>, call |-> None, loaded |-> None]

CallLoad ==
    \E df \in Frames, db_path \in Targets, table_name \in TableNames,
       env \in Envs({"ok", "fail"}, {TRUE}, {None}) :
    \E w \in {load_df_to_sqlite(World, df, db_path, table_name, env)} :
        LET call == [df |-> df, db_path |-> db_path, table_name |-> table_name] IN
        /\ ss' = w.ss
        /\ fs' = w.fs
        /\ conns' = w.conns
        /\ last' = [event |-> "load", fs |-> fs, log |-> w.log, remote |-> w.remote,
                    execs |-> w.execs, call |-> Some(call),
                    loaded |-> IF w.ss.table_loaded THEN Some(call) ELSE None]
        /\ UNCHANGED <<use_in_memory_db, uploaded_file>>

CallExecute ==
    \E query_str \in Statements, db_path \in Targets, table_name \in TableNames :
    \E r \in {execute_query_on_db(World, query_str, db_path,
                                  sane_table_name(table_name))} :
        /\ ss' = r.w.ss
        /\ fs' = r.w.fs
        /\ conns' = r.w.conns
        /\ last' = [event |-> "execute", fs |-> fs, log |-> r.w.log,
                    remote |-> r.w.remote,
                    execs |-> <<[query |-> query_str, db_path |-> db_path,
                                 loaded |-> ss.table_loaded, ret |-> r.ret]>>,
                    call |-> None, loaded |-> last.loaded]
        /\ UNCHANGED <<use_in_memory_db, uploaded_file>>

UnitNext == CallLoad \/ CallExecute

SpecUnit == UnitInit /\ [][UnitNext]_vars

----------------------------------------------------------------------------
(* src/app.py: the session *)

AppInit ==
    /\ ss = app_InitialSessionState
    /\ fs = None
    /\ conns = 0
    /\ use_in_memory_db = FALSE
    /\ uploaded_file = None
    /\ last = [event |-> "start", fs |-> None, log |-> <<>>, remote |-> <<>>,
               execs |-> <<>>]

AppRun(name, use_in_memory_db_, uploaded_file_, ev, env) ==
    \E w \in {app_main(World, use_in_memory_db_, uploaded_file_, ev, env)} :
    /\ Asked(env, w.asked)
    /\ ss' = w.ss
    /\ fs' = w.fs
    /\ conns' = w.conns
    /\ use_in_memory_db' = use_in_memory_db_
    /\ uploaded_file' = uploaded_file_
    /\ last' = [event |-> name, fs |-> fs, log |-> w.log, remote |-> w.remote,
                execs |-> w.execs]

AppToggleBackend ==
    \E env \in Envs({"ok", "fail"}, {TRUE}, {None}) :
        AppRun("toggle", ~use_in_memory_db, uploaded_file, NoEvent, env)

\* line 136: the uploader offers CSV files only
AppUploadFile ==
    \E f \in Files, env \in Envs({"ok", "fail"}, BOOLEAN, {None}) :
        /\ file_uploader(f.name, {S_csv})
        /\ uploaded_file # Some(f)
        /\ AppRun("upload", use_in_memory_db, Some(f), NoEvent, env)

AppRemoveFile ==
    \E env \in {Calm} :
        /\ ~IsNone(uploaded_file)
        /\ AppRun("remove", use_in_memory_db, None, NoEvent, env)

AppRerun ==
    \E env \in Envs({"ok", "fail"}, {TRUE}, {None}) :
        AppRun("rerun", use_in_memory_db, uploaded_file, NoEvent, env)

AppInitClient ==
    \E k \in ApiKeys, env \in {Calm} :
        AppRun("init", use_in_memory_db, uploaded_file,
               [NoEvent EXCEPT !.button = "init", !.api_key = k], env)

AppGenerate ==
    \E p \in Prompts, m \in ModelIds, env \in Envs({"ok"}, {TRUE}, Responses) :
        /\ TabsDrawn /\ ss.gemini_client
        /\ AppRun("generate", use_in_memory_db, uploaded_file,
                  [NoEvent EXCEPT !.button = "generate", !.prompt = p, !.model_id = m],
                  env)

AppExecuteGenerated ==
    \E env \in {Calm} :
        /\ TabsDrawn
        /\ ~IsNone(ss.generated_sql_query) /\ Get(ss.generated_sql_query) # <<>>
        /\ AppRun("execute_generated", use_in_memory_db, uploaded_file,
                  [NoEvent EXCEPT !.button = "execute_generated"], env)

AppNext ==
    \/ AppToggleBackend
    \/ AppUploadFile
    \/ AppRemoveFile
    \/ AppRerun
    \/ AppInitClient
    \/ AppGenerate
    \/ AppExecuteGenerated

SpecApp == AppInit /\ [][AppNext]_vars

----------------------------------------------------------------------------
(* generate_sql_query called on its own, in both scripts: the initial       *)
(* state draws what the caller passes (client, model id) and what the       *)
(* remote model answers (an exception, or a text made of at most MaxTokens  *)
(* tokens); the one step applies the function.                              *)

T_drop == <<"d","r","o","p"," ","t">>
T_hi == <<"h","i">>
Tokens == {S_fence, S_sql, Sp, Q_one, T_drop, T_hi}
MaxTokens == 4

RECURSIVE TextsOf(_)
TextsOf(n) ==
    IF n = 0 THEN {<<>>}
    ELSE With(TextsOf(n - 1), LAMBDA shorter :
         shorter \cup {t \o k : t \in shorter, k \in Tokens})
Texts == TextsOf(MaxTokens)

ParseInit ==
    /\ ss = InitialSessionState
    /\ fs = None
    /\ conns = 0
    /\ use_in_memory_db = FALSE
    /\ uploaded_file = None
    /\ last \in {[event |-> "input", response |-> r, client |-> c, model_id |-> m,
                  ret |-> None, log |-> <<>>, remote |-> <<>>, execs |-> <<>>] :
                    r \in {None} \cup {Some(t) : t \in Texts},
                    c \in BOOLEAN, m \in ModelIds}

Called(name, g) ==
    /\ last' = [last EXCEPT !.event = name, !.ret = g.ret, !.log = g.w.log,
                            !.remote = g.w.remote]
    /\ UNCHANGED <<ss, fs, conns, use_in_memory_db, uploaded_file>>

CallGenerate ==
    /\ last.event = "input"
    /\ \E g \in {generate_sql_query(World, last.client, last.model_id, <<"s","h","o","w">>,
                                    <<H_Amt>>, TABLE_NAME,
                                    [Calm EXCEPT !.response = last.response])} :
          Called("generate_sql_query", g)

CallAppGenerate ==
    /\ last.event = "input"
    /\ \E g \in {app_generate_sql_query(World, last.client, last.model_id,
                                        <<"s","h","o","w">>, <<H_Amt>>,
                                        [Calm EXCEPT !.response = last.response])} :
          Called("app.generate_sql_query", g)

ParseNext == CallGenerate \/ CallAppGenerate

SpecParse == ParseInit /\ [][ParseNext]_vars

----------------------------------------------------------------------------
(* The extraction called on its own: lines 172-226 applied once to a file   *)
(* whose header row is drawn from the lists of distinct labels below        *)
(* (pandas never reads two equal labels from a header row).                 *)

H_A_B == <<"$","A","$","B">>
ColumnLabels ==
    <<Text(H_Amt \o <<"$">>), Text(H_Date), Text(H_A_B), Text(H_Qty), Number(7)>>
MaxColumns == 3
RECURSIVE ColumnLists(_)
ColumnLists(n) ==
    IF n = 0 THEN {<<>>}
    ELSE With(ColumnLists(n - 1), LAMBDA shorter :
         shorter \cup {Append(l, c) : l \in {k \in shorter : Len(k) = n - 1},
                                      c \in DOMAIN ColumnLabels})
\* a header row, as the positions of its labels in ColumnLabels
HeaderRows ==
    {k \in ColumnLists(MaxColumns) :
        k # <<>> /\ \A i, j \in DOMAIN k : k[i] = k[j] => i = j}
FileKinds ==
    {[name |-> N_A_csv, format |-> "csv"], [name |-> N_T_xlsx, format |-> "excel"]}
FileOf(input) ==
    [name |-> input.name, format |-> input.format,
     columns |-> [i \in DOMAIN input.labels |-> ColumnLabels[input.labels[i]]],
     rows |-> <<>>]

ExtractInit ==
    /\ ss = InitialSessionState
    /\ fs = None
    /\ conns = 0
    /\ use_in_memory_db = FALSE
    /\ uploaded_file = None
    /\ last \in {[event |-> "input", name |-> k.name, format |-> k.format,
                   labels |-> l, log |-> <<>>, remote |-> <<>>, execs |-> <<>>] :
                      k \in FileKinds, l \in HeaderRows}

Extract ==
    /\ last.event = "input"
    /\ \E w \in {parse_file(World, FileOf(last))} :
          /\ ss' = w.ss
          /\ last' = [last EXCEPT !.event = "parse_file", !.log = w.log]
    /\ UNCHANGED <<fs, conns, use_in_memory_db, uploaded_file>>

ExtractNext == Extract

SpecExtract == ExtractInit /\ [][ExtractNext]_vars

----------------------------------------------------------------------------
(* The store functions called with relation names of every shape: one       *)
(* frame, loaded under a name and queried with the name the load stored or  *)
(* would store.                                                              *)

N_Tx == <<"T","x">>
RelationNames == {N_my_t, N_Tx, <<>>}
NamedFrame == [columns |-> <<H_Amt, H_Date>>, rows |-> << <<"i:1", "s:x">> >>]
NamedStatements ==
    {Select(S_star, sane_table_name(n)) : n \in RelationNames} \cup {Q_one, Q_prose}

NamesInit ==
    /\ ss = InitialSessionState
    /\ fs = None
    /\ conns = 0
    /\ use_in_memory_db = FALSE
    /\ uploaded_file = None
    /\ last = [event |-> "start", log |-> <<>>, remote |-> <<>>,
               execs |-> <<>>, call |-> None]

LoadNamed ==
    \E db_path \in Targets, table_name \in RelationNames,
       env \in Envs({"ok", "fail"}, {TRUE}, {None}) :
    \E w \in {load_df_to_sqlite(World, NamedFrame, db_path, table_name, env)} :
        /\ ss' = w.ss
        /\ fs' = w.fs
        /\ conns' = w.conns
        /\ last' = [event |-> "load", log |-> w.log, remote |-> w.remote,
                    execs |-> w.execs,
                    call |-> Some([db_path |-> db_path, table_name |-> table_name])]
        /\ UNCHANGED <<use_in_memory_db, uploaded_file>>

ExecuteNamed ==
    \E query_str \in NamedStatements, db_path \in Targets, table_name \in RelationNames :
    \E r \in {execute_query_on_db(World, query_str, db_path,
                                  sane_table_name(table_name))} :
        /\ ss' = r.w.ss
        /\ fs' = r.w.fs
        /\ conns' = r.w.conns
        /\ last' = [event |-> "execute", log |-> r.w.log,
                    remote |-> r.w.remote,
                    execs |-> <<[query |-> query_str, db_path |-> db_path,
                                 loaded |-> ss.table_loaded, ret |-> r.ret]>>,
                    call |-> Some([db_path |-> db_path,
                                   table_name |-> sane_table_name(table_name)])]
        /\ UNCHANGED <<use_in_memory_db, uploaded_file>>

NamesNext == LoadNamed \/ ExecuteNamed

SpecNames == NamesInit /\ [][NamesNext]_vars

----------------------------------------------------------------------------
(* Two sessions of src/runqueriesoncsvexcel.py on one persistent database   *)
(* file.  Each session has its own session state and uploader; the scripts  *)
(* run in threads of their own, so the run of an upload is taken in two     *)
(* steps, up to the end of the reset (line 170) and from the extraction on  *)
(* (line 172), and a run of the other session may come between them.        *)

Sessions == {1, 2}
SharedFiles == {FileUniverse[1], FileUniverse[2]}
SharedQueries == {Q_all, Q_Date}

SharedInit ==
    /\ ss = [s \in Sessions |-> InitialSessionState]
    /\ fs = None
    /\ conns = 0
    /\ use_in_memory_db = FALSE
    /\ uploaded_file = [s \in Sessions |-> None]
    /\ last = [event |-> "start", session |-> 0, fs |-> None, log |-> <<>>,
               remote |-> <<>>, execs |-> <<>>, pending |-> None]

WorldOf(s) == [ss |-> ss[s], fs |-> fs, conns |-> conns, log |-> <<>>, remote |-> <<>>,
               execs |-> <<>>, asked |-> {}]

SharedStep(name, s, w, env, pending) ==
    /\ Asked(env, w.asked)
    /\ ss' = [ss EXCEPT ![s] = w.ss]
    /\ fs' = w.fs
    /\ conns' = w.conns
    /\ last' = [event |-> name, session |-> s, fs |-> fs, log |-> w.log,
                remote |-> w.remote, execs |-> w.execs, pending |-> pending]
    /\ UNCHANGED use_in_memory_db

\* lines 98-170 of the run caused by picking a file
SharedUploadBegin ==
    \E s \in Sessions, f \in SharedFiles, env \in Envs({"ok"}, BOOLEAN, {None}) :
        /\ IsNone(last.pending)
        /\ uploaded_file[s] # Some(f)
        /\ uploaded_file' = [uploaded_file EXCEPT ![s] = Some(f)]
        /\ SharedStep("upload_begin", s,
                      reset_on_new_file(sidebar(WorldOf(s), use_in_memory_db, NoEvent, env),
                                        f, env),
                      env, Some(s))

\* lines 172-339 of that run
SharedUploadEnd ==
    \E s \in Sessions, env \in Envs({"ok", "fail"}, {TRUE}, {None}) :
        /\ last.pending = Some(s)
        /\ UNCHANGED uploaded_file
        /\ SharedStep("upload_end", s,
                      query_section(
                          load_if_needed(parse_file(WorldOf(s), Get(uploaded_file[s])),
                                         env),
                          uploaded_file[s], NoEvent, env),
                      env, None)

\* the run caused by "Execute Direct SQL Query" in a session that is not in
\* the middle of a run
SharedExecute ==
    \E s \in Sessions, q \in SharedQueries, env \in {Calm} :
        /\ last.pending # Some(s)
        /\ tabs(WorldOf(s))
        /\ UNCHANGED uploaded_file
        /\ SharedStep("execute", s,
                      main(WorldOf(s), use_in_memory_db, uploaded_file[s],
                           [NoEvent EXCEPT !.button = "execute_direct",
                                           !.direct_sql_query = q], env),
                      env, last.pending)

SharedNext == SharedUploadBegin \/ SharedUploadEnd \/ SharedExecute

SpecShared == SharedInit /\ [][SharedNext]_vars

----------------------------------------------------------------------------
(* What a run did, read from the record of the last run *)

Shown(msg) == msg \in Range(last.log)
Count(msg) == Cardinality({i \in DOMAIN last.log : last.log[i] = msg})
Loaded == ~IsNone(ss.df_loaded) /\ ss.table_loaded

\* the relation that a load of frame df under the configured name leaves
RelationOf(df) ==
    [name |-> TABLE_NAME, columns |-> df.columns, rows |-> SqlRows(df.rows)]

----------------------------------------------------------------------------
(* C1: switching the backend target while a file is parsed and the relation *)
(* is marked loaded puts the session back to FileParsed, so that the run    *)
(* of the switch loads the relation into the newly selected target before   *)
(* any query can be executed against it.                                    *)

C1_SwitchForcesReload ==
    (last.event = "toggle" /\ Loaded) => Shown("load_df_to_sqlite")

C1_Witness ==
    /\ last.event = "toggle" /\ Loaded /\ use_in_memory_db
    /\ ~IsNone(fs) /\ ~Shown("load_df_to_sqlite")

----------------------------------------------------------------------------
(* C3: when an execution against the ephemeral target reports               *)
(* RelationNotLoaded, the run re-loads the relation from the frame in       *)
(* session state exactly once and retries the execution exactly once, and   *)
(* the retry succeeds while the frame is still in session state.            *)

RelationNotLoaded(ret) ==
    ret.kind \in {"Table not loaded into in-memory DB.", "Table not found. Reload file."}

C3_RetryOnceAfterReload ==
    (last.execs # <<>> /\ last.execs[1].db_path = MEMORY
        /\ RelationNotLoaded(last.execs[1].ret))
    => /\ Count("load_df_to_sqlite") = 1
       /\ Len(last.execs) = 2
       /\ ~IsNone(ss.df_loaded) => last.execs[2].ret.type = "DataFrame"

----------------------------------------------------------------------------
(* C5: when a file of another name is uploaded with the persistent target   *)
(* selected and is loaded, the stored relation is exactly the new file's    *)
(* (nothing of the earlier file survives); and a query against the          *)
(* persistent target that names a column the stored relation does not have  *)
(* returns an ExecutionError ("no such column"), not data.                  *)

StoredColumns == UNION {Range(t.columns) : t \in Get(fs)}
QueryColumns == {H_Amt, H_Date}

C5_UploadReplacesRelation ==
    /\ (last.event = "upload" /\ Shown("load_df_to_sqlite") /\ Loaded
            /\ ~use_in_memory_db)
       => fs = Some({RelationOf(Get(ss.df_loaded))})
    /\ \A i \in DOMAIN last.execs : \A c \in QueryColumns :
          LET e == last.execs[i] IN
          (e.db_path = DB_NAME /\ e.query = Select(c, TABLE_NAME)
              /\ ~IsNone(fs) /\ Get(fs) # {} /\ c \notin StoredColumns)
          => /\ e.ret.kind = "Error executing query"
             /\ contains(e.ret.detail, S_no_such_column \o S_colon \o c)

\* file T.xlsx has just replaced a relation that had the column Amt
C5_Witness ==
    /\ last.event = "upload" /\ Loaded /\ ~use_in_memory_db
    /\ ~IsNone(last.fs) /\ \E t \in Get(last.fs) : H_Amt \in Range(t.columns)
    /\ ss.uploaded_file_name = Some(N_T_xlsx)
    /\ H_Amt \notin StoredColumns

----------------------------------------------------------------------------
(* C7: every connection that load or execute opens is closed before the     *)
(* operation returns, whether it succeeds or fails: in the record of a run  *)
(* a connection is opened only while none is open and the run ends with     *)
(* none open, and no connection is open at any remote call.                 *)

RECURSIVE OpenAfter(_)
OpenAfter(log) ==
    IF log = <<>> THEN 0
    ELSE LET n == OpenAfter(SubSeq(log, 1, Len(log) - 1))
             e == log[Len(log)]
         IN  IF e = "sqlite3.connect" THEN n + 1
             ELSE IF e = "conn.close" THEN n - 1 ELSE n

C7_ConnectionsReleased ==
    /\ conns = 0
    /\ \A i \in DOMAIN last.log :
          /\ OpenAfter(SubSeq(last.log, 1, i)) \in {0, 1}
          /\ last.log[i] \notin {"sqlite3.connect", "conn.close", "pd.read_sql_query",
                                 "st.error: Error loading DataFrame to SQLite"}
             => OpenAfter(SubSeq(last.log, 1, i)) = 0
    /\ \A i \in DOMAIN last.remote : last.remote[i].conns = 0

\* a load failed, and an execution failed, in runs that ended with no
\* connection open
C7_Witness ==
    /\ conns = 0
    /\ \/ Shown("st.error: Error loading DataFrame to SQLite")
       \/ (Shown("sqlite3.connect") /\ Shown("st.error: Query Execution Failed"))

----------------------------------------------------------------------------
(* C8: when a stage of query generation fails (the remote call raises, or   *)
(* the response yields no statement), the session stays at RelationLoaded:  *)
(* the relation is still marked loaded, the frame and the headers are       *)
(* unchanged, no generated statement is left to execute, and an error is    *)
(* shown.                                                                   *)

GenerationFailed(l) ==
    /\ l.event = "generate" /\ l.remote # <<>>
    /\ \/ IsNone(l.remote[1].response)
       \/ parse_response(Get(l.remote[1].response)).sql_query = <<>>

C8_FailedGenerationStays ==
    [][GenerationFailed(last')
       => /\ ss'.table_loaded
          /\ ss'.df_loaded = ss.df_loaded /\ ss'.headers = ss.headers
          /\ ss'.generated_sql_query \in {None, Some(<<>>)}
          /\ "st.error: Could not generate SQL query." \in Range(last'.log)]_vars

\* the remote call raised while an earlier statement was waiting
C8_Witness ==
    /\ GenerationFailed(last) /\ IsNone(last.remote[1].response)
    /\ Loaded /\ IsNone(ss.generated_sql_query)
    /\ Shown("st.error: Error calling Gemini API")

----------------------------------------------------------------------------
(* C9: a failed extraction or a failed load is shown once and is not        *)
(* attempted again by the pipeline on its own: after a run in which it      *)
(* failed, a run that the user caused without touching the file or the      *)
(* backend target (a text input, the client button, a query button) does    *)
(* not extract or load again.                                               *)

ExtractionFailed(l) == "st.error: Error parsing file or processing headers" \in Range(l.log)
ExtractionTried(l) ==
    ExtractionFailed(l) \/ "st.success: File parsed." \in Range(l.log)
LoadFailed(l) == "st.error: Failed to load data into SQLite table." \in Range(l.log)
LoadTried(l) == "load_df_to_sqlite" \in Range(l.log)
OwnEvents == {"rerun", "init", "generate", "execute_generated", "execute_direct"}

OnceInRun(l) ==
    /\ Cardinality({i \in DOMAIN l.log : l.log[i] = "load_df_to_sqlite"}) <= 1
    /\ Cardinality({i \in DOMAIN l.log :
          l.log[i] \in {"st.error: Error parsing file or processing headers",
                        "st.success: File parsed."}}) <= 1
    /\ Len(l.remote) <= 1 /\ Len(l.execs) <= 1
    /\ l.remote # <<>> => l.event \in {"init", "generate"}
    /\ l.execs # <<>> => ~LoadTried(l)

----------------------------------------------------------------------------
(* C4: round trip.  For every frame T and either backend target, once       *)
(* load(T, target, name) has succeeded, executing SELECT * FROM <name> on   *)
(* that target returns a frame equal to T up to the order of the columns.   *)

SameUpToColumnOrder(a, b) ==
    /\ Len(a.columns) = Len(b.columns) /\ Len(a.rows) = Len(b.rows)
    /\ \A i \in DOMAIN a.columns : \E j \in DOMAIN b.columns :
          /\ a.columns[i] = b.columns[j]
          /\ \A r \in DOMAIN a.rows : a.rows[r][i] = b.rows[r][j]

SelectAllAfterLoad ==
    /\ last.event = "execute" /\ ~IsNone(last.loaded)
    /\ last.execs[1].db_path = Get(last.loaded).db_path
    /\ last.execs[1].query
         = Select(S_star, sane_table_name(Get(last.loaded).table_name))

C4_RoundTrip ==
    SelectAllAfterLoad
    => /\ last.execs[1].ret.type = "DataFrame"
       /\ SameUpToColumnOrder(Get(last.execs[1].ret.df), Get(last.loaded).df)

----------------------------------------------------------------------------
(* C6: load replaces.  After a load into the persistent target succeeds,    *)
(* the relation of that name holds exactly the rows of the frame loaded,    *)
(* whatever relation was there before: no earlier row is kept, and loading  *)
(* a frame a second time leaves its row count as it was.                    *)

Stored(db, name) == {t \in db : t.name = sane_table_name(name)}

C6_LoadReplaces ==
    (last.event = "load" /\ ~IsNone(last.loaded) /\ Get(last.call).db_path = DB_NAME)
    => LET c == Get(last.call) IN
       /\ ~IsNone(fs)
       /\ Stored(Get(fs), c.table_name)
            = {[name |-> sane_table_name(c.table_name), columns |-> c.df.columns,
                rows |-> SqlRows(c.df.rows)]}
       /\ \A t \in Stored(Get(fs), c.table_name) : Len(t.rows) = Len(c.df.rows)

\* the load found a relation of that name with other rows, and more of them
C6_Witness ==
    /\ last.event = "load" /\ ~IsNone(last.loaded) /\ ~IsNone(last.fs)
    /\ Get(last.call).db_path = DB_NAME
    /\ \E t \in Stored(Get(last.fs), Get(last.call).table_name) :
          Len(t.rows) > Len(Get(last.call).df.rows)

----------------------------------------------------------------------------
(* C10: an execution against the ephemeral target while the relation is     *)
(* not marked loaded returns RelationNotLoaded ("Table not loaded into      *)
(* in-memory DB.") and neither opens a connection nor runs the statement.   *)

UnloadedEphemeralExecute ==
    /\ last.event = "execute" /\ last.execs[1].db_path = MEMORY
    /\ ~last.execs[1].loaded

C10_UnloadedEphemeralRefused ==
    UnloadedEphemeralExecute
    => /\ last.execs[1].ret = Str("Table not loaded into in-memory DB.", <<>>)
       /\ ~Shown("sqlite3.connect") /\ ~Shown("pd.read_sql_query")
       /\ conns = 0

\* a statement that would succeed on any connection was refused
C10_Witness ==
    /\ UnloadedEphemeralExecute /\ last.execs[1].query = Q_one
    /\ last.execs[1].ret.type = "str"

----------------------------------------------------------------------------
(* C2: the reset covers every downstream field.  In the run that handles a  *)
(* change of the uploaded file's identity the frame, the loaded flag and    *)
(* the headers of the previous file are dropped together with the last      *)
(* generated statement: after that run the session holds no statement       *)
(* generated for the previous file, and frame and headers are the new       *)
(* file's or none.                                                          *)

C2_ResetCoversAll ==
    [][(last'.event = "upload" /\ ss'.uploaded_file_name # ss.uploaded_file_name)
       => /\ IsNone(ss'.generated_sql_query)
          /\ ss'.table_loaded => "load_df_to_sqlite" \in Range(last'.log)
          /\ IsNone(ss'.df_loaded) = IsNone(ss'.headers)
          /\ ~IsNone(ss'.df_loaded)
               => /\ Get(ss'.df_loaded).rows = Get(uploaded_file').rows
                  /\ Get(ss'.headers) = Get(ss'.df_loaded).columns]_vars

----------------------------------------------------------------------------
(* The parser, read from a call of generate_sql_query that returned a       *)
(* statement                                                                *)

Parsed ==
    last.event \in {"generate_sql_query", "app.generate_sql_query"} /\ ~IsNone(last.ret)
Raw == strip(Get(last.response))
Statement == Get(last.ret)
Advisory ==
    \E i \in DOMAIN last.log :
        last.log[i] \in {"st.warning: LLM did not return query in expected format.",
                         "st.warning: LLM did not return a query in expected format."}
StatementKeywords ==
    {<<"S","E","L","E","C","T">>, <<"I","N","S","E","R","T">>,
     <<"U","P","D","A","T","E">>, <<"D","E","L","E","T","E">>,
     <<"W","I","T","H">>, <<"C","R","E","A","T","E">>,
     <<"A","L","T","E","R">>, <<"D","R","O","P">>}
BeginsWithKeyword(t) == \E k \in StatementKeywords : startswith(upper(t), k)

FenceAt(t, i) == SubSeq(t, i, i + 2) = S_fence
Fences(t) == {i \in 1..(Len(t) - 2) : FenceAt(t, i)}
HasFence(t) == \E o, c \in Fences(t) : c >= o + 3
Least(S) == CHOOSE i \in S : \A j \in S : i <= j
\* the interior of the first fenced block of t, after its optional sql tag
FirstInterior(t) ==
    With(Least(Fences(t)), LAMBDA o :
    With(IF lower(slice(t, o + 3, o + 5)) = S_sql THEN o + 6 ELSE o + 3, LAMBDA from :
    slice(t, from, Least({c \in Fences(t) : c >= from}) - 1)))
\* t without a leading "sql" tag and the white space after it
Untagged(t) ==
    IF lower(slice(t, 1, 3)) = S_sql /\ Len(t) >= 4 /\ isspace(t[4])
    THEN strip(slice(t, 4, Len(t))) ELSE t

----------------------------------------------------------------------------
(* C11: the parser raises the AmbiguousOutput advisory exactly when the     *)
(* extracted statement, taken from a fenced block or by stripping the       *)
(* language tag, does not begin (in any case) with SELECT, INSERT, UPDATE,  *)
(* DELETE, WITH, CREATE, ALTER or DROP.                                     *)

C11_AdvisoryIffNoKeyword ==
    Parsed => (Advisory <=> ~BeginsWithKeyword(IF HasFence(Raw)
                                               THEN strip(FirstInterior(Raw))
                                               ELSE Untagged(Raw)))

----------------------------------------------------------------------------
(* C12: the parser is total and fail-open: whenever the remote call         *)
(* returns a text, whatever it is, a statement string is returned; and for  *)
(* a text without a fenced block and without a leading keyword the          *)
(* statement is the raw trimmed text.                                       *)

C12_TotalFailOpen ==
    /\ (last.event = "generate_sql_query" /\ last.client /\ last.model_id # <<>>
            /\ ~IsNone(last.response))
       => ~IsNone(last.ret)
    /\ (last.event = "app.generate_sql_query" /\ last.client /\ ~IsNone(last.response))
       => ~IsNone(last.ret)
    /\ (Parsed /\ ~HasFence(Raw) /\ ~BeginsWithKeyword(Untagged(Raw)))
       => Statement = Raw

----------------------------------------------------------------------------
(* C13: strategy order.  When the raw text holds a fenced block, the        *)
(* statement is the trimmed interior of the first block, whatever text      *)
(* stands before or after it; the language tag is stripped from the start   *)
(* of the text only when there is no fenced block.                          *)

C13_FenceFirst ==
    (Parsed /\ last.event = "generate_sql_query")
    => IF HasFence(Raw) THEN Statement = strip(FirstInterior(Raw))
       ELSE Statement = Untagged(Raw)

\* a block after other text: the statement is the block's interior
C13_Witness ==
    /\ Parsed /\ last.event = "generate_sql_query"
    /\ Raw = T_hi \o S_fence \o Q_one \o S_fence
    /\ Statement = Q_one

----------------------------------------------------------------------------
(* C17: generate without a client, or with an empty model identifier,       *)
(* fails as GeneratorUnavailable (an error, no statement) without a remote  *)
(* call; with both configured, one request makes exactly one remote call.   *)

C17_UnavailableNoCall ==
    last.event \in {"generate_sql_query", "app.generate_sql_query"}
    => IF ~last.client \/ last.model_id = <<>>
       THEN /\ last.remote = <<>> /\ IsNone(last.ret)
            /\ \E i \in DOMAIN last.log :
                  last.log[i] \in {"st.error: Gemini client not initialized.",
                                   "st.error: Gemini Model ID not provided."}
       ELSE Len(last.remote) = 1

----------------------------------------------------------------------------
(* C14: the column names of a successfully extracted frame are distinct: a  *)
(* file whose names collide once '$' is removed ends extraction in a        *)
(* failure, and the session never holds a parsed frame with two equal       *)
(* column names.                                                            *)

Distinct(names) == \A i, j \in DOMAIN names : names[i] = names[j] => i = j

C14_NoDuplicateHeaders ==
    ~IsNone(ss.df_loaded) => Distinct(Get(ss.df_loaded).columns)

----------------------------------------------------------------------------
(* C15: a run that is given a file whose name ends in none of .csv, .xls,   *)
(* .xlsx reports an extraction error; it does not end with no frame and no  *)
(* error.                                                                   *)

SupportedExtension(name) ==
    endswith(name, S_csv) \/ endswith(name, S_xls) \/ endswith(name, S_xlsx)

C15_UnsupportedReported ==
    (~IsNone(uploaded_file) /\ ~SupportedExtension(Get(uploaded_file).name)
        /\ last.event = "upload")
    => /\ IsNone(ss.df_loaded)
       /\ Shown("st.error: Error parsing file or processing headers")

----------------------------------------------------------------------------
(* C16: a failed extraction leaves nothing usable: after the run in which   *)
(* it failed the session holds no frame, no headers and no export data,     *)
(* the relation is not marked loaded, the query tabs are not drawn and no   *)
(* query was executed; and while the session holds no frame the relation    *)
(* is not marked loaded and the query tabs are not drawn.                   *)

C16_FailedExtractionLeavesNothing ==
    /\ ExtractionFailed(last)
       => /\ IsNone(ss.df_loaded) /\ IsNone(ss.headers)
          /\ IsNone(ss.json_data_for_download)
          /\ last.execs = <<>>
    /\ IsNone(ss.df_loaded) => (~ss.table_loaded /\ ~TabsDrawn)

\* the unreadable file C.csv was uploaded over a loaded relation
C16_Witness ==
    /\ ExtractionFailed(last) /\ last.event = "upload"
    /\ ~IsNone(last.fs) /\ Get(last.fs) # {}
    /\ ss.uploaded_file_name = Some(N_C_csv)
    /\ IsNone(ss.df_loaded) /\ ~ss.table_loaded

----------------------------------------------------------------------------
(* C18: when at least one column name of the file contains '$', the header  *)
(* list of the extracted frame is the file's names, as strings, with every  *)
(* '$' removed from every name, and the '$' advisory is shown; when no name *)
(* contains '$' the header list is the file's names as strings and no       *)
(* advisory is shown.                                                       *)

AsString(col) == IF col.t = "str" THEN col.v ELSE <<Digits[col.v + 1]>>
WithoutDollar(name) == SelectSeq(name, LAMBDA c : c # "$")
HasDollar(cols) == \E i \in DOMAIN cols : "$" \in Range(AsString(cols[i]))
Extracted == last.event = "parse_file" /\ ~IsNone(ss.df_loaded)

----------------------------------------------------------------------------
(* C19: after a successful load the name of the relation holds only         *)
(* letters, digits and underscores: it is the name passed, of the same      *)
(* length, with every other character replaced by an underscore, or the     *)
(* fallback name when the name passed is empty; that name is the one kept   *)
(* in the session state and the one of the relation in the store.           *)

NameChar(c) == c \in Range(UpperCase) \cup Range(LowerCase) \cup Range(Digits) \cup {"_"}
Sanitized(given, used) ==
    /\ \A i \in DOMAIN used : NameChar(used[i])
    /\ given = <<>> => used = FallbackTableName
    /\ given # <<>>
       => /\ Len(used) = Len(given)
          /\ \A i \in DOMAIN given :
                used[i] = IF NameChar(given[i]) THEN given[i] ELSE "_"
LoadSucceeded ==
    last.event = "load" /\ ss.table_loaded /\ ~Shown("st.error: Error loading DataFrame to SQLite")

C19_SanitizedName ==
    LoadSucceeded
    => /\ Sanitized(Get(last.call).table_name, ss.current_table_name)
       /\ Get(last.call).db_path = DB_NAME
          => \E t \in Get(fs) :
                /\ t.name = ss.current_table_name
                /\ \A u \in Get(fs) : lower(u.name) = lower(t.name) => u = t

\* the name "my-t" was stored as "my_t"
C19_Witness ==
    /\ LoadSucceeded /\ Get(last.call).table_name = N_my_t
    /\ Get(last.call).db_path = DB_NAME
    /\ ss.current_table_name = <<"m","y","_","t">>
    /\ \E t \in Get(fs) : t.name = <<"m","y","_","t">>

\* the empty name was replaced by the fallback name
C19_WitnessFallback ==
    /\ LoadSucceeded /\ Get(last.call).table_name = <<>>
    /\ ss.current_table_name = FallbackTableName

----------------------------------------------------------------------------
(* C20: a failure of the backend is returned, classified: when its text     *)
(* says "no such table" and holds the configured relation name, the value   *)
(* returned is "Table ... not found. Reload file."; every other failure is  *)
(* returned as "Error executing query" with the backend's message.  This    *)
(* for every name a load can store, upper-case letters included.            *)

BackendFailed(e) ==
    e.ret.type = "str" /\ e.ret.detail # <<>>

C20_FailureClassified ==
    (last.event = "execute" /\ BackendFailed(last.execs[1]))
    => LET e == last.execs[1] IN
       /\ e.ret.detail = S_execution_failed \o e.query \o S_quote_colon
                              \o sqlite_execute(e.query, IF e.db_path = MEMORY THEN EmptyDb ELSE Get(fs)).msg
       /\ e.ret.kind = IF contains(lower(e.ret.detail), S_no_such_table)
                          /\ contains(e.ret.detail, Get(last.call).table_name)
                       THEN "Table not found. Reload file."
                       ELSE "Error executing query"

----------------------------------------------------------------------------
(* C23: in every state of a session, the loaded flag being true implies     *)
(* that a frame and its headers are held in the session state.              *)

C23_LoadedImpliesFrame ==
    ss.table_loaded => (~IsNone(ss.df_loaded) /\ ~IsNone(ss.headers)
                           /\ Get(ss.headers) = Get(ss.df_loaded).columns)

\* the file T.xlsx has just replaced a loaded file and is loaded in its turn
C23_Witness ==
    /\ last.event = "upload" /\ ss.uploaded_file_name = Some(N_T_xlsx)
    /\ ~IsNone(last.fs) /\ Get(last.fs) # {}
    /\ ss.table_loaded /\ ss.headers = Some(<< <<"7">>, H_Date >>)
    /\ Shown("st.info: Removed old database file")

----------------------------------------------------------------------------
(* C25: the executor is called, for a generated or a directly entered       *)
(* statement, only in a run whose session has the loaded flag set and a     *)
(* non-empty header list; a run without a frame, or with a frame that is    *)
(* not loaded, executes nothing.                                            *)

C25_ExecuteOnlyWhenLoaded ==
    /\ last.execs # <<>>
       => /\ ss.table_loaded /\ ~IsNone(ss.headers) /\ Get(ss.headers) # <<>>
          /\ \A i \in DOMAIN last.execs : last.execs[i].loaded
    /\ Shown("execute_query_on_db") => last.execs # <<>>

\* a direct statement was executed against the loaded relation
C25_Witness ==
    /\ last.event = "execute_direct" /\ Len(last.execs) = 1
    /\ last.execs[1].query = Q_all /\ last.execs[1].ret.type = "DataFrame"
    /\ ss.table_loaded

----------------------------------------------------------------------------
(* C24: a file is known by its name only.  Once a file is parsed and        *)
(* loaded, a run that is handed a file of the same name, whatever its       *)
(* content, or no file at all, leaves the frame, the headers, the loaded    *)
(* flag, the generated statement and the stored relation as they were, and  *)
(* neither extracts nor loads.                                              *)

SameNameOrNone(f) == IsNone(f) \/ Some(Get(f).name) = ss.uploaded_file_name

----------------------------------------------------------------------------
(* C22: in every state of a session in which the relation is marked loaded  *)
(* and the persistent target is selected, the persistent store holds the    *)
(* relation, and its columns and rows are those of the frame held in the    *)
(* session state (whose columns are the headers), whatever uploads and      *)
(* switches of the target came before.                                      *)

C22_PersistentMatchesFrame ==
    (ss.table_loaded /\ ss.db_path_for_query = DB_NAME)
    => /\ ~IsNone(ss.df_loaded) /\ ss.headers = Some(Get(ss.df_loaded).columns)
       /\ ~IsNone(fs) /\ RelationOf(Get(ss.df_loaded)) \in Get(fs)

----------------------------------------------------------------------------
(* C21: two sessions on the persistent target.  A query for the whole       *)
(* relation that a session marked loaded executes returns a complete        *)
(* relation, the one the last load of either session left: the frame of one *)
(* of the files as a load stores it, and with it what the store holds.      *)

StoredFrameOf(f) ==
    With(Get(parse_file([World EXCEPT !.ss = InitialSessionState], f).ss.df_loaded),
         LAMBDA df : [columns |-> df.columns, rows |-> SqlRows(df.rows)])

C21_SharedLoadVisible ==
    (last.event = "execute" /\ last.execs # <<>> /\ last.execs[1].query = Q_all)
    => /\ last.execs[1].ret.type = "DataFrame"
       /\ \E f \in SharedFiles : last.execs[1].ret.df = Some(StoredFrameOf(f))
       /\ \E t \in Get(fs) : last.execs[1].ret.df
                                 = Some([columns |-> t.columns, rows |-> t.rows])

====
